---- MODULE Spec2Model ----
(***************************************************************************)
(* A model of treb's deployment engine: the planner (generate_plan), the   *)
(* executor (execute_plan) and the `apply` driver that persists every      *)
(* yielded plan in the revision store.                                     *)
(***************************************************************************)
EXTENDS Integers, Sequences, FiniteSets, TLC

VARIABLES
    strategy,             \* the registered specs and their dependency graph
    available_artifacts,  \* the artifacts whose exists(ctx) is true
    gp,                   \* the locals of generate_plan
    plan,                 \* execute_plan's local `plan` (the actions list)
    idx,                  \* execute_plan's cursor (0-based, as in the code)
    results,              \* execute_plan's results map
    pc,                   \* where the `apply` process is
    resume_at,            \* the yield statement the generator is suspended at
    state_file,           \* revisions/<revision>/state.json
    given,                \* the plan execute_plan was called with, as its caller holds it
    yielded,              \* the plans this execute_plan call has yielded, as its caller holds them
    hooks,                \* the hooks this execute_plan call has invoked
    applies,              \* how many times `apply` was started
    push,                 \* ctx.config.state.push
    calls,                \* what the latest save_revision call did, in order
    registry,             \* the dicts of the Strategy object the deploy files fill
    call,                 \* a library function being called, with its arguments
    ret                   \* what that call returned or raised

vars == <<strategy, available_artifacts, gp, plan, idx, results, pc, resume_at,
          state_file, given, yielded, hooks, applies, push, calls, registry, call, ret>>

\* ------------------------------------------------------------ bounds

\* `apply` is started at most this many times for one revision.
MaxApplies == 2

\* plans never grow beyond this length (caps the re-triggered cascades).
MaxPlanLen == 6

\* ------------------------------------------------------------ values

\* Every value the hooks exchange is a record of the same shape.
Val(tag, of) == [tag |-> tag, of |-> of]

None == Val("None", "")

\* ------------------------------------------------------------ addresses

\* The addresses the deploy files use, in the order `sorted()` gives them.
SortedAddrs == <<"a1", "a2", "k1", "r1", "s1", "s2", "zz">>

Rank(a) == CHOOSE i \in 1..Len(SortedAddrs) : SortedAddrs[i] = a

\* A dependency leaf: an Address with its optional attr.
Leaf(a) == [addr |-> a, attr |-> "None"]

\* An Address with an attr path, such as //root:s1.out
LeafAttr(a, attr) == [addr |-> a, attr |-> attr]

\* ------------------------------------------------------------ strategy

ArtifactAddrs == {"a1", "a2"}
ResourceAddrs == {"r1"}
StepAddrs == {"s1", "s2"}
CheckAddrs == {"k1"}

Kind == [a \in ArtifactAddrs \cup ResourceAddrs \cup StepAddrs \cup CheckAddrs |->
            IF a \in ArtifactAddrs THEN "artifact"
            ELSE IF a \in ResourceAddrs THEN "resource"
            ELSE IF a \in StepAddrs THEN "step" ELSE "check"]

StrategySteps(s) == {a \in DOMAIN s.kind : s.kind[a] \in {"step", "check"}}

StrategyArtifacts(s) == {a \in DOMAIN s.kind : s.kind[a] = "artifact"}

StrategyResources(s) == {a \in DOMAIN s.kind : s.kind[a] = "resource"}

StrategySpecs(s) == DOMAIN s.kind

Dependencies(s, a) == s.fields[a]

\* strategy.steps().items(): the steps and checks in registration order.
StepItems(s) == s.order

\* The order in which the deploy files register the steps and checks.
RegistrationOrder == <<"s2", "k1", "s1">>

\* The field lists and `after` lists the deploy files may give a step or check.
FieldChoices ==
    { <<Leaf("a1")>>, <<Leaf("a2")>>, <<Leaf("r1")>>, <<Leaf("s1")>>,
      <<Leaf("s2")>>, <<Leaf("a1"), Leaf("s1")>>, <<Leaf("zz")>>,
      <<Leaf("a2"), Leaf("zz")>>, <<LeafAttr("s1", "out")>>,
      <<LeafAttr("a1", "record.id")>> }

AfterChoices == { <<>>, <<"s1">>, <<"s2">>, <<"k1">> }

PlanStrategies ==
    { [kind |-> Kind, order |-> RegistrationOrder, fields |-> f, after |-> a] :
        f \in [StepAddrs \cup CheckAddrs -> FieldChoices],
        a \in [StepAddrs \cup CheckAddrs -> AfterChoices] }

\* ------------------------------------------------------------ address strings

\* Strings are sequences of characters; these are the characters they are
\* made of: the delimiters, a letter, a digit and the dash.
Chars == {"/", ":", "#", "a", "1", "-"}

\* The longest address string parsed, and the longest base and name of an
\* Address that is built directly.
MaxStrLen == 5
MaxBaseLen == 2
MaxNameLen == 3

Strings(n) == UNION {[1..k -> Chars] : k \in 0..n}

\* str.isalpha and str.isalnum on one character
IsAlpha(ch) == ch = "a"
IsAlnum(ch) == ch \in {"a", "1"}

is_valid_name(name) ==
    IF Len(name) = 0 THEN FALSE
    ELSE IF ~IsAlpha(name[1]) THEN FALSE
    ELSE IF name[Len(name)] = "-" THEN FALSE
    ELSE \A n \in 1..Len(name) : IsAlnum(name[n]) \/ name[n] = "-"

\* The attr of an Address: None or a string.
NoAttr == [some |-> FALSE, path |-> <<>>]
Attr(path) == [some |-> TRUE, path |-> path]

Address(base, name, attr) == [base |-> base, name |-> name, attr |-> attr]

ValueError == [kind |-> "ValueError", value |-> Address(<<>>, <<>>, NoAttr)]

\* Address(base=..., name=..., attr=...): the validator of `name` runs.
NewAddress(base, name, attr) ==
    IF is_valid_name(name) THEN [kind |-> "return", value |-> Address(base, name, attr)]
    ELSE ValueError

StartsWith(s, prefix) ==
    Len(s) >= Len(prefix) /\ SubSeq(s, 1, Len(prefix)) = prefix

\* str.partition: split at the first occurrence of sep.
Partition(s, sep) ==
    LET found == {n \in 1..Len(s) : s[n] = sep} IN
    IF found = {} THEN <<s, <<>>, <<>>>>
    ELSE LET n == CHOOSE x \in found : \A y \in found : x <= y
         IN <<SubSeq(s, 1, n - 1), <<sep>>, SubSeq(s, n + 1, Len(s))>>

\* mutant: the absolute form is split at the first colon.
RPartition_AtFirst(s, sep) ==
    IF \E n \in 1..Len(s) : s[n] = sep THEN Partition(s, sep) ELSE <<<<>>, <<>>, s>>

\* str.rpartition: split at the last occurrence of sep.
RPartition(s, sep) ==
    LET found == {n \in 1..Len(s) : s[n] = sep} IN
    IF found = {} THEN <<<<>>, <<>>, s>>
    ELSE LET n == CHOOSE x \in found : \A y \in found : x >= y
         IN <<SubSeq(s, 1, n - 1), <<sep>>, SubSeq(s, n + 1, Len(s))>>

\* Address.__str__
AddressStr(a) == <<"/", "/">> \o a.base \o <<":">> \o a.name

\* Address.__eq__
AddressEq(a, b) == a.base = b.base /\ a.name = b.name

\* mutant: the hash attrs would generate, over every field.
AddressHash_AllFields(a) == AddressStr(a) \o <<"#">> \o a.attr.path

\* Address.__hash__: hash(str(self)), the string standing for its hash.
AddressHash(a) == AddressStr(a)

\* Address.from_string
from_string(base, addr) ==
    LET parsed(b, postfix) ==
            LET p == Partition(postfix, "#")
            IN NewAddress(b, p[1], IF p[3] # <<>> THEN Attr(p[3]) ELSE NoAttr)
    IN IF StartsWith(addr, <<":">>)
       THEN parsed(base, SubSeq(addr, 2, Len(addr)))
       ELSE IF StartsWith(addr, <<"/", "/">>)
            THEN LET r == RPartition(SubSeq(addr, 3, Len(addr)), ":")
                 IN parsed(r[1], r[3])
            ELSE ValueError

\* mapping[key] on a dict given as its entries: the value of the entry whose
\* key has the hash of `key` and equals it, KeyError when there is none.
DictGet(entries, key) ==
    LET hit == {n \in 1..Len(entries) :
                   /\ AddressHash(entries[n].key) = AddressHash(key)
                   /\ AddressEq(entries[n].key, key)}
    IN IF hit = {} THEN [kind |-> "KeyError", value |-> None]
       ELSE [kind |-> "return", value |-> entries[CHOOSE n \in hit : TRUE].value]

\* ------------------------------------------------------------ registration

\* Address(base=path, name=...) as the registration methods build it.

\* Node(address=..., item=...)
Node(address, item) == [address |-> address, item |-> item]

EmptyDict == [k \in {} |-> k]

\* d[k] = v
DictSet(d, k, v) == [x \in DOMAIN d \cup {k} |-> IF x = k THEN v ELSE d[x]]

\* Strategy.__init__
EmptyStrategy ==
    [steps |-> EmptyDict, artifacts |-> EmptyDict, resources |-> EmptyDict,
     rev_graph |-> EmptyDict]

\* No library call is being made.
NoCall == [fn |-> "none", kind |-> "none"]

\* The deploy-file directories and the names specs are given in them.
RegPaths == {"root"}
RegNames == {"n1", "n2"}

\* The spec objects of one kind the deploy files may register: two different
\* objects for each name.
SpecObjects(kind) == {[kind |-> kind, name |-> n, id |-> i] : n \in RegNames, i \in {1, 2}}

register_artifact(reg, path, artifact) ==
    LET node == Node(Address(path, artifact.name, NoAttr), artifact)
    IN [reg EXCEPT !.artifacts = DictSet(@, node.address, node)]

register_resource(reg, path, resource) ==
    LET node == Node(Address(path, resource.name, NoAttr), resource)
    IN [reg EXCEPT !.resources = DictSet(@, node.address, node)]

\* register_step and register_check: both fill the same dict and record the
\* fields of the spec in the reverse graph.
register_step(reg, path, step) ==
    LET address == Address(path, step.name, NoAttr)
        node == Node(address, step)
    IN [reg EXCEPT !.steps = DictSet(@, address, node),
                   !.rev_graph = DictSet(@, node.address, step)]

register_check(reg, path, check) ==
    LET address == Address(path, check.name, NoAttr)
        node == Node(address, check)
    IN [reg EXCEPT !.steps = DictSet(@, address, node),
                   !.rev_graph = DictSet(@, node.address, check)]

\* ------------------------------------------------------------ planner

RESULT_PLACEHOLDER == Val("placeholder", "")

ResourceSpec(a) == Val("resource_spec", a)

\* Resource.state(ctx): the current state of the resource at address a.
ResourceState(a) == Val("resource_state", a)

\* Artifact.resolve(ctx): the object representing the artifact at address a.
ArtifactResolve(a) == Val("artifact", a)

Action(type, address, state) ==
    [type |-> type, address |-> address, state |-> state,
     snapshot |-> None, result |-> None, error |-> None]

\* The keys of a dict or the elements of a list.
Elems(items) == {items[n] : n \in DOMAIN items}

\* del steps[step_addr]
Del(items, a) == SelectSeq(items, LAMBDA x : x # a)

\* mutant: the pending steps are visited in the order of the dict.
Sorted_InsertionOrder(items) == items

\* _DUMMY = object()
DUMMY == Val("dummy", "")

AttributeError == Val("AttributeError", "")

\* The segments operator.attrgetter splits an attr at its dots into.
AttrPath(attr) == IF attr = "record.id" THEN <<"record", "id">> ELSE <<attr>>

\* getattr(obj, name): every attribute of the planner's placeholder is the
\* same dummy object, a plain object() that has no attribute of its own.
GetAttr(obj, name) ==
    IF obj = RESULT_PLACEHOLDER THEN DUMMY
    ELSE IF obj = DUMMY \/ obj = AttributeError THEN AttributeError
    ELSE Val(obj.tag, obj.of \o "." \o name)

RECURSIVE GetPath(_, _)
GetPath(obj, path) ==
    IF path = <<>> THEN obj ELSE GetPath(GetAttr(obj, Head(path)), Tail(path))

\* operator.attrgetter(attr)(resolved)
AttrGetter(attr, resolved) == GetPath(resolved, AttrPath(attr))

\* mutant: the attr of the address is not applied to the resolved value.
ResolveAddress_IgnoreAttr(value, mapping) == mapping[value.addr]

\* resolve_addresses_address: mapping[value], projected by value.attr.
ResolveAddress(value, mapping) ==
    IF value.attr = "None" THEN mapping[value.addr]
    ELSE AttrGetter(value.attr, mapping[value.addr])

\* resolve_addresses on a node's fields, when every leaf is in the mapping.
ResolveAddresses(value, mapping) ==
    [n \in 1..Len(value) |-> ResolveAddress(value[n], mapping)]

\* resolve_addresses on a node's fields: the address of the first leaf that
\* is not in the mapping (UnresolvableAddress), or "" when no leaf raises it.
RECURSIVE Unresolvable(_, _)
Unresolvable(value, mapping) ==
    IF value = <<>> THEN ""
    ELSE IF Head(value).addr \notin DOMAIN mapping THEN Head(value).addr
    ELSE IF ResolveAddress(Head(value), mapping) = AttributeError THEN ""
    ELSE Unresolvable(Tail(value), mapping)

\* resolve_addresses on a node's fields: whether the attr projection of a
\* leaf raises AttributeError before any leaf is found missing.
RECURSIVE AttributeFails(_, _)
AttributeFails(value, mapping) ==
    IF value = <<>> THEN FALSE
    ELSE IF Head(value).addr \notin DOMAIN mapping THEN FALSE
    ELSE IF ResolveAddress(Head(value), mapping) = AttributeError THEN TRUE
    ELSE AttributeFails(Tail(value), mapping)

\* An exception leaving resolve_addresses, with the address it is about.
Raised(exception, address) == [raise |-> exception, address |-> address]

IsRaise(outcome) == "raise" \in DOMAIN outcome

\* resolve_addresses on any value. A value is an Address leaf (Leaf), another
\* leaf (Val), or a container with one field naming its type: a list or a
\* tuple of values, a dict or an attrs instance given by its (key, value)
\* entries in order, or a set of values. The result is the set of the
\* possible outcomes, a resolved value or an exception: the elements of a
\* set are visited in an unspecified order, so any of them that raises may
\* be the one that ends the call.
RECURSIVE resolve_addresses(_, _)
RECURSIVE ResolveItems(_, _)
resolve_addresses(value, mapping) ==
    IF DOMAIN value = {"addr", "attr"}
    THEN IF value.addr \notin DOMAIN mapping
         THEN {Raised("UnresolvableAddress", value.addr)}
         ELSE LET resolved == ResolveAddress(value, mapping)
              IN IF resolved = AttributeError
                 THEN {Raised("AttributeError", value.addr)}
                 ELSE {resolved}
    ELSE IF DOMAIN value = {"list"}
    THEN {IF IsRaise(o) THEN o ELSE [list |-> o.items] : o \in ResolveItems(value.list, mapping)}
    ELSE IF DOMAIN value = {"tuple"}
    THEN {IF IsRaise(o) THEN o ELSE [tuple |-> o.items] : o \in ResolveItems(value.tuple, mapping)}
    ELSE IF DOMAIN value = {"dict"}
    THEN {IF IsRaise(o) THEN o
          ELSE [dict |-> [n \in 1..Len(value.dict) |->
                             [key |-> value.dict[n].key, value |-> o.items[n]]]] :
          o \in ResolveItems([n \in 1..Len(value.dict) |-> value.dict[n].value], mapping)}
    ELSE IF DOMAIN value = {"attrs"}
    THEN {IF IsRaise(o) THEN o
          ELSE [attrs |-> [n \in 1..Len(value.attrs) |->
                              [key |-> value.attrs[n].key, value |-> o.items[n]]]] :
          o \in ResolveItems([n \in 1..Len(value.attrs) |-> value.attrs[n].value], mapping)}
    ELSE IF DOMAIN value = {"set"}
    THEN LET raises == UNION {{o \in resolve_addresses(e, mapping) : IsRaise(o)} : e \in value.set}
         IN IF raises # {} THEN raises
            ELSE {[set |-> UNION {resolve_addresses(e, mapping) : e \in value.set}]}
    ELSE {value}

\* The comprehension over the items of a list, tuple, dict or attrs instance:
\* they are resolved in order and the first exception ends the call.
ResolveItems(items, mapping) ==
    IF items = <<>> THEN {[items |-> <<>>]}
    ELSE UNION {IF IsRaise(h) THEN {h}
                ELSE {IF IsRaise(t) THEN t ELSE [items |-> <<h>> \o t.items] :
                      t \in ResolveItems(Tail(items), mapping)} :
                h \in resolve_addresses(Head(items), mapping)}

\* sorted(steps.items()): the pending addresses in ascending order.
RECURSIVE Sorted(_)
Sorted(items) ==
    IF items = <<>> THEN <<>>
    ELSE LET m == CHOOSE x \in Elems(items) : \A y \in Elems(items) : Rank(x) <= Rank(y)
         IN <<m>> \o Sorted(Del(items, m))

\* mutant: every node is planned as a RUN.
GetActionType_AlwaysRun(s, a) == "RUN"

GetActionType(s, a) == IF s.kind[a] = "step" THEN "RUN" ELSE "CHECK"

\* mutant: `after` is checked against the registered specs, not the results.
AllAfterResolved_Registered(s, a, mapping) ==
    \A i \in 1..Len(s.after[a]) : s.after[a][i] \in DOMAIN s.kind

AllAfterResolved(s, a, mapping) ==
    \A i \in 1..Len(s.after[a]) : s.after[a][i] \in DOMAIN mapping

\* The body of the `for step_addr, step in sorted(steps.items())` loop.
ForBody(s, g, step_addr) ==
    LET miss == Unresolvable(Dependencies(s, step_addr), g.results) IN
    IF step_addr \in g.skip_addresses THEN g
    ELSE IF AttributeFails(Dependencies(s, step_addr), g.results)
    THEN [g EXCEPT !.status = "error"]
    ELSE IF miss # "" THEN
        IF miss \in g.skip_addresses
        THEN [g EXCEPT !.unresolvable_addresses = Append(@, miss),
                       !.skip_addresses = @ \cup {step_addr},
                       !.steps = Del(@, step_addr)]
        ELSE [g EXCEPT !.unresolvable_addresses = Append(@, miss)]
    ELSE IF ~AllAfterResolved(s, step_addr, g.results) THEN g
    ELSE [g EXCEPT !.actions = Append(@, Action(GetActionType(s, step_addr), step_addr, "PLANNED")),
                   !.steps = Del(@, step_addr),
                   !.results = [a \in DOMAIN @ \cup {step_addr} |->
                                   IF a = step_addr THEN RESULT_PLACEHOLDER ELSE @[a]]]

RECURSIVE ForLoop(_, _, _)
ForLoop(s, g, todo) ==
    IF todo = <<>> \/ g.status = "error" THEN g
    ELSE ForLoop(s, ForBody(s, g, Head(todo)), Tail(todo))

\* mutant: every registered artifact is taken as available.
GeneratePlanInit_AllArtifacts(s, available) ==
    [steps |-> StepItems(s),
     prev_steps |-> <<>>,
     unresolvable_addresses |-> <<>>,
     skip_addresses |-> StrategyArtifacts(s) \ Elems(available),
     actions |-> <<>>,
     results |-> [a \in StrategyArtifacts(s) \cup StrategyResources(s) |->
                     IF a \in StrategyResources(s) THEN ResourceSpec(a) ELSE RESULT_PLACEHOLDER],
     status |-> "loop"]

\* The locals of generate_plan before its loop; `available` is a list.
GeneratePlanInit(s, available) ==
    [steps |-> StepItems(s),
     prev_steps |-> <<>>,
     unresolvable_addresses |-> <<>>,
     skip_addresses |-> StrategyArtifacts(s) \ Elems(available),
     actions |-> <<>>,
     results |-> [a \in Elems(available) \cup StrategyResources(s) |->
                     IF a \in StrategyResources(s) THEN ResourceSpec(a) ELSE RESULT_PLACEHOLDER],
     status |-> "loop"]

\* mutant: prev_steps is not updated at the top of a pass.
WhileIteration_NoPrevSteps(s, g) ==
    IF g.steps = <<>> THEN [g EXCEPT !.status = "returned"]
    ELSE IF g.prev_steps = <<Sorted(g.steps)>> THEN [g EXCEPT !.status = "raised"]
    ELSE ForLoop(s, [g EXCEPT !.unresolvable_addresses = <<>>], Sorted(g.steps))

\* One iteration of `while steps:` (or the return once it is empty).
WhileIteration(s, g) ==
    IF g.steps = <<>> THEN [g EXCEPT !.status = "returned"]
    ELSE IF g.prev_steps = <<Sorted(g.steps)>> THEN [g EXCEPT !.status = "raised"]
    ELSE ForLoop(s,
                 [g EXCEPT !.prev_steps = <<Sorted(g.steps)>>, !.unresolvable_addresses = <<>>],
                 Sorted(g.steps))

RECURSIVE WhileLoop(_, _)
WhileLoop(s, g) ==
    IF g.status # "loop" THEN g ELSE WhileLoop(s, WhileIteration(s, g))

generate_plan(s, available) == WhileLoop(s, GeneratePlanInit(s, available))

\* apply's list of the artifacts that exist, in the order of strategy.artifacts()
AvailableArtifacts(s, existing) ==
    SelectSeq(<<"a1", "a2">>, LAMBDA a : a \in StrategyArtifacts(s) /\ a \in existing)

\* ------------------------------------------------------------ planner spec

\* ctx.revision
Revision == "abc"

\* cattrs.unstructure of an Action: the enums as their values, the address
\* as a mapping, snapshot, result and error as the JSON values they hold.
UnstructureAction(a) ==
    [type |-> a.type,
     address |-> [base |-> "root", name |-> a.address, attr |-> "null"],
     state |-> a.state,
     snapshot |-> a.snapshot, result |-> a.result, error |-> a.error]

\* mutant: the stored result is not read back.
StructureAction_NoResult(d) ==
    [type |-> d.type, address |-> d.address.name, state |-> d.state,
     snapshot |-> d.snapshot, result |-> None, error |-> d.error]

\* cattrs.structure of a decoded action.
StructureAction(d) ==
    [type |-> d.type, address |-> d.address.name, state |-> d.state,
     snapshot |-> d.snapshot, result |-> d.result, error |-> d.error]

\* unstructure(Revision(plan=plan))
UnstructureRevision(p) ==
    [plan |-> [actions |-> [n \in 1..Len(p) |-> UnstructureAction(p[n])]]]

\* structure(decoded, Revision)
StructureRevision(d) ==
    [n \in 1..Len(d.plan.actions) |-> StructureAction(d.plan.actions[n])]

\* revisions/<revision>/state.json does not exist.
NoStateFile == [exists |-> FALSE, content |-> UnstructureRevision(<<>>)]

\* load_revision: the Revision read from state.json, or None.
LoadRevision(f) ==
    IF f.exists THEN [found |-> TRUE, plan |-> StructureRevision(f.content)]
    ELSE [found |-> FALSE, plan |-> <<>>]

InitPlan ==
    /\ strategy \in PlanStrategies
    /\ available_artifacts \in SUBSET StrategyArtifacts(strategy)
    /\ gp = GeneratePlanInit(strategy, AvailableArtifacts(strategy, available_artifacts))
    /\ plan = <<>>
    /\ idx = 0
    /\ results = <<>>
    /\ pc = "start"
    /\ resume_at = "none"
    /\ state_file = NoStateFile
    /\ given = <<>>
    /\ yielded = <<>>
    /\ hooks = <<>>
    /\ applies = 0
    /\ push = FALSE
    /\ calls = <<>>
    /\ registry = EmptyStrategy
    /\ call = NoCall
    /\ ret = NoCall

GeneratePlanStep ==
    /\ gp.status = "loop"
    /\ gp' = WhileIteration(strategy, gp)
    /\ UNCHANGED <<registry, call, ret, given, strategy, available_artifacts, plan, idx, results, pc, resume_at,
                   state_file, yielded, hooks, applies, push, calls>>

NextPlan == GeneratePlanStep

SpecPlan == InitPlan /\ [][NextPlan]_vars

\* ------------------------------------------------------------ executor

\* What the snapshot hook of a step may return.
SnapshotValues == {Val("snapshot", "v1"), Val("snapshot", "v2")}

\* inspect.signature(item.snapshot).return_annotation
SnapshotType == Val("type", "snapshot")

StructureError == Val("StructureError", "")

\* cattrs.unstructure of a snapshot: its JSON form.
Unstructure(v) == Val("unstructured", v.of)

\* cattrs.structure(obj, cl): obj itself when cl is None, the decoded value
\* when cl is the snapshot type and obj its JSON form, an error otherwise.
Structure(obj, cl) ==
    IF cl = None THEN obj
    ELSE IF cl = SnapshotType /\ obj.tag = "unstructured" THEN Val("snapshot", obj.of)
    ELSE StructureError

\* How a hook invocation may end: it returns a value, raises FailedCheck(result)
\* or raises another exception.
Return(v) == [kind |-> "return", value |-> v]
FailedCheck(v) == [kind |-> "FailedCheck", value |-> v]
OtherError == [kind |-> "error", value |-> None]

SnapshotOutcomes == {Return(v) : v \in SnapshotValues} \cup {OtherError}

HookOutcomes(type, a) ==
    IF type = "RUN" THEN {Return(Val("result", a)), FailedCheck(Val("failed", a)), OtherError}
    ELSE IF type = "CHECK"
         THEN {Return(Val("passed", "true")), FailedCheck(Val("passed", "false")), OtherError}
    ELSE {Return(None), FailedCheck(Val("failed", a)), OtherError}

HookName(type) ==
    IF type = "RUN" THEN "run" ELSE IF type = "CHECK" THEN "check" ELSE "rollback"

Hook(name, i, a, deps, arg, out) ==
    [hook |-> name, idx |-> i, address |-> a, deps |-> deps, arg |-> arg, out |-> out]

Terminal == {"FAILED", "DONE", "CANCELLED"}

\* mutant: a DONE action is taken up again.
MatchState_DoneAgain(action) ==
    IF action.state = "DONE" THEN "IN_PROGRESS" ELSE action.state

\* `match action.state`
MatchState(action) == action.state

\* The results map execute_plan starts with.
InitialResults(s, available) ==
    [a \in available \cup StrategyResources(s) |->
        IF a \in available THEN ArtifactResolve(a) ELSE ResourceSpec(a)]

\* mutant: the step is looked up for an action of any type.
NeedsStep_AnyType(action) == TRUE

\* `if action.type is ActionType.RUN`: only a RUN action has its step looked
\* up and snapshotted on the way to IN_PROGRESS.
NeedsStep(action) == action.type = "RUN"

\* mutant: the snapshot is taken but not stored on the action.
ExecutePlanPlanned_NoSnapshot(p, i, snapshot) ==
    [p EXCEPT ![i + 1] = [@ EXCEPT !.state = "IN_PROGRESS"]]

\* _execute_plan_planned: the plan with action i IN_PROGRESS, and for a RUN
\* the unstructured snapshot stored on it.
ExecutePlanPlanned(p, i, snapshot) ==
    [p EXCEPT ![i + 1] =
        IF @.type = "RUN"
        THEN [@ EXCEPT !.state = "IN_PROGRESS", !.snapshot = Unstructure(snapshot)]
        ELSE [@ EXCEPT !.state = "IN_PROGRESS"]]

\* The value a hook of action `a` is given as its snapshot argument.
DecodedSnapshot(a) ==
    IF a.type = "RUN" THEN Structure(a.snapshot, SnapshotType)
    ELSE IF a.type = "ROLLBACK" THEN Structure(SnapshotType, a.snapshot)
    ELSE None

\* mutant: new_actions[action_idx - 1] = new_action
ExecutePlanInProgress_OffByOne(p, i, out) ==
    [p EXCEPT ![IF i = 0 THEN Len(p) ELSE i] = [p[i + 1] EXCEPT !.state = "DONE", !.result = out.value]]

\* mutant: the hook's return value is not stored on the action.
ExecutePlanInProgress_NoResult(p, i, out) ==
    [p EXCEPT ![i + 1] = [@ EXCEPT !.state = "DONE"]]

\* _execute_plan_in_progress, once the hook returned or raised FailedCheck.
ExecutePlanInProgress(p, i, out) ==
    [p EXCEPT ![i + 1] = [@ EXCEPT !.state = "DONE", !.result = out.value]]

\* start_rollback = action.state is not ActionType.ROLLBACK
StartRollback(a, out) == out.kind = "FailedCheck" /\ a.state # "ROLLBACK"

DoneActions(p, i) == SubSeq(p, 1, i + 1)

\* mutant: the later actions are copied without the CANCELLED state.
CancelledActions_NotCancelled(p, i) ==
    [j \in 1..(Len(p) - (i + 1)) |-> p[i + 1 + j]]

CancelledActions(p, i) ==
    [j \in 1..(Len(p) - (i + 1)) |-> [p[i + 1 + j] EXCEPT !.state = "CANCELLED"]]

RECURSIVE RollbackActions(_)
RollbackActions(done) ==
    IF done = <<>> THEN <<>>
    ELSE LET last == done[Len(done)]
             rest == RollbackActions(SubSeq(done, 1, Len(done) - 1))
         IN IF last.type = "RUN"
            THEN <<Action("ROLLBACK", last.address, "PLANNED")>> \o rest
            ELSE rest

\* mutant: done_actions + rollback_actions + cancelled_actions
Cascade_RollbacksFirst(p, i) ==
    DoneActions(p, i) \o RollbackActions(DoneActions(p, i)) \o CancelledActions(p, i)

\* The plan after the rollback cascade started at index i.
Cascade(p, i) ==
    DoneActions(p, i) \o CancelledActions(p, i) \o RollbackActions(DoneActions(p, i))

\* mutant: the results map keeps what it held for the address.
SetResult_KeepOld(r, a, v) ==
    [x \in DOMAIN r \cup {a} |-> IF x \in DOMAIN r THEN r[x] ELSE RESULT_PLACEHOLDER]

\* results[action.address] = plan.actions[idx].result
SetResult(r, a, v) == [x \in DOMAIN r \cup {a} |-> IF x = a THEN v ELSE r[x]]

\* ------------------------------------------------------------ apply

\* The strategies `apply` is started with; the artifact a2 is never built.
ExecStrategies ==
    { s \in PlanStrategies :
        /\ s.fields["s1"] = <<Leaf("a1")>> /\ s.after["s1"] = <<>>
        /\ s.fields["s2"] \in {<<Leaf("a1")>>, <<Leaf("s1")>>, <<Leaf("a2")>>,
                               <<LeafAttr("s1", "out")>>}
        /\ s.after["s2"] \in {<<>>, <<"k1">>}
        /\ s.fields["k1"] \in {<<Leaf("r1")>>, <<Leaf("s1")>>, <<Leaf("a2")>>}
        /\ s.after["k1"] \in {<<>>, <<"s1">>, <<"s2">>} }

Init ==
    /\ strategy \in ExecStrategies
    /\ available_artifacts \in {{}, {"a1"}}
    /\ gp = GeneratePlanInit(strategy, AvailableArtifacts(strategy, available_artifacts))
    /\ plan = <<>>
    /\ idx = 0
    /\ results = <<>>
    /\ pc = "start"
    /\ resume_at = "none"
    /\ state_file = NoStateFile
    /\ given = <<>>
    /\ yielded = <<>>
    /\ hooks = <<>>
    /\ applies = 0
    /\ push \in BOOLEAN
    /\ calls = <<>>
    /\ registry = EmptyStrategy
    /\ call = NoCall
    /\ ret = NoCall

\* `apply` up to the first next() on execute_plan's generator.
Apply ==
    /\ pc \in {"start", "done", "raised", "killed"}
    /\ applies < MaxApplies
    /\ applies' = applies + 1
    /\ \E force \in BOOLEAN :
        IF ~LoadRevision(state_file).found \/ force
        THEN LET g == generate_plan(strategy, AvailableArtifacts(strategy, available_artifacts)) IN
             /\ gp' = g
             /\ plan' = g.actions
             /\ pc' = IF g.status \in {"raised", "error"} THEN "raised" ELSE "running"
        ELSE /\ plan' = LoadRevision(state_file).plan
             /\ pc' = "running"
             /\ UNCHANGED gp
    /\ results' = InitialResults(strategy, available_artifacts)
    /\ idx' = 0
    /\ resume_at' = "none"
    /\ given' = plan'
    /\ yielded' = <<>>
    /\ hooks' = <<>>
    /\ UNCHANGED <<registry, call, ret, strategy, available_artifacts, state_file, push, calls>>

\* The process is interrupted from outside.
Kill ==
    /\ pc \in {"running", "yielded"}
    /\ pc' = "killed"
    /\ UNCHANGED <<registry, call, ret, given, strategy, available_artifacts, gp, plan, idx, results, resume_at,
                   state_file, yielded, hooks, applies, push, calls>>

\* mutant: the file written is not the one load_revision reads.
SaveRevision_NotWritten(p) == state_file

\* save_revision: what state.json holds afterwards.
SaveRevision(p) == [exists |-> TRUE, content |-> UnstructureRevision(p)]

Call(op, arg) == [op |-> op, arg |-> arg]

\* mutant: the commit is made before the file is written.
SaveRevisionCalls_CommitFirst(revision, do_push) ==
    <<Call("commit", "update state for revision " \o revision),
      Call("write", revision \o "/state.json")>>
    \o (IF do_push THEN <<Call("push", "remote_location")>> ELSE <<>>)

\* save_revision: the file write and the git calls it makes, in order.
SaveRevisionCalls(revision, do_push) ==
    <<Call("write", revision \o "/state.json"),
      Call("commit", "update state for revision " \o revision)>>
    \o (IF do_push THEN <<Call("push", "remote_location")>> ELSE <<>>)

\* mutant: the cursor moves on after every yield.
NextIdx_Always(i, at) == i + 1

\* The cursor when the generator is resumed: `idx += 1` follows the yield of
\* the IN_PROGRESS case only.
NextIdx(i, at) == IF at = "in_progress" THEN i + 1 ELSE i

\* The body of apply's `for` loop, then the generator resumed up to the
\* top of its `while` loop.
Save ==
    /\ pc = "yielded"
    /\ state_file' = SaveRevision(yielded[Len(yielded)])
    /\ calls' = SaveRevisionCalls(Revision, push)
    /\ idx' = NextIdx(idx, resume_at)
    /\ resume_at' = "none"
    /\ pc' = "running"
    /\ UNCHANGED <<registry, call, ret, given, strategy, available_artifacts, gp, plan, results, yielded, hooks, applies, push>>

\* `if idx >= len(plan.actions): break`
ExecFinish ==
    /\ pc = "running"
    /\ idx >= Len(plan)
    /\ pc' = "done"
    /\ UNCHANGED <<registry, call, ret, given, strategy, available_artifacts, gp, plan, idx, results, resume_at,
                   state_file, yielded, hooks, applies, push, calls>>

\* `case ActionState.FAILED | ActionState.DONE | ActionState.CANCELLED`
ExecTerminal ==
    /\ pc = "running"
    /\ idx < Len(plan)
    /\ MatchState(plan[idx + 1]) \in Terminal
    /\ idx' = idx + 1
    /\ UNCHANGED <<registry, call, ret, given, strategy, available_artifacts, gp, plan, results, pc, resume_at,
                   state_file, yielded, hooks, applies, push, calls>>

\* The executor stops with an exception: nothing is yielded.
Raise ==
    /\ pc' = "raised"
    /\ UNCHANGED <<plan, results, resume_at, given, yielded>>

\* mutant: new_actions = plan.actions, the list of the plan handed out last
\* is written to.
Evolve_InPlace(held, p) == Append([held EXCEPT ![Len(held)] = p], p)

\* The plan objects the caller holds once the executor has built the plan p
\* from the one handed out last: copy.deepcopy and evolve make p a new object
\* and leave the earlier ones as they were.
Evolve(held, p) == Append(held, p)

\* The generator yields the plan p.
Yield(p, at) ==
    /\ plan' = p
    /\ LET held == Evolve(<<given>> \o yielded, p)
       IN /\ given' = held[1]
          /\ yielded' = Tail(held)
    /\ resume_at' = at
    /\ pc' = "yielded"

\* `case ActionState.PLANNED`
ExecPlanned ==
    /\ pc = "running"
    /\ idx < Len(plan)
    /\ MatchState(plan[idx + 1]) = "PLANNED"
    /\ LET action == plan[idx + 1] IN
       IF ~NeedsStep(action)
       THEN /\ Yield(ExecutePlanPlanned(plan, idx, None), "planned")
            /\ UNCHANGED <<results, hooks>>
       ELSE IF \/ action.address \notin StrategySteps(strategy)
               \/ strategy.kind[action.address] # "step"
               \/ Unresolvable(Dependencies(strategy, action.address), results) # ""
               \/ AttributeFails(Dependencies(strategy, action.address), results)
       THEN Raise /\ UNCHANGED hooks
       ELSE \E out \in SnapshotOutcomes :
            /\ hooks' = Append(hooks, Hook("snapshot", idx, action.address,
                                            ResolveAddresses(Dependencies(strategy, action.address), results),
                                            None, out))
            /\ IF out.kind = "return"
               THEN /\ Yield(ExecutePlanPlanned(plan, idx, out.value), "planned")
                    /\ UNCHANGED results
               ELSE Raise
    /\ UNCHANGED <<registry, call, ret, strategy, available_artifacts, gp, idx, state_file, applies, push, calls>>

\* `case ActionState.IN_PROGRESS`
ExecInProgress ==
    /\ pc = "running"
    /\ idx < Len(plan)
    /\ MatchState(plan[idx + 1]) = "IN_PROGRESS"
    /\ LET action == plan[idx + 1]
           arg == DecodedSnapshot(action)
       IN
       IF \/ action.address \notin StrategySpecs(strategy)
          \/ Unresolvable(Dependencies(strategy, action.address), results) # ""
          \/ AttributeFails(Dependencies(strategy, action.address), results)
          \/ arg = StructureError
       THEN Raise /\ UNCHANGED hooks
       ELSE \E out \in HookOutcomes(action.type, action.address) :
            /\ hooks' = Append(hooks, Hook(HookName(action.type), idx, action.address,
                                            ResolveAddresses(Dependencies(strategy, action.address), results),
                                            arg, out))
            /\ IF out.kind = "error"
               THEN Raise
               ELSE LET done == ExecutePlanInProgress(plan, idx, out)
                        new == IF StartRollback(action, out) THEN Cascade(done, idx) ELSE done
                    IN /\ Len(new) <= MaxPlanLen
                       /\ results' = SetResult(results, action.address, done[idx + 1].result)
                       /\ Yield(new, "in_progress")
    /\ UNCHANGED <<registry, call, ret, strategy, available_artifacts, gp, idx, state_file, applies, push, calls>>

\* The exit status of the `apply` process: 0 when the command returns, 1 when
\* an exception escapes it or it is interrupted.
ExitStatus(at) == IF at = "done" THEN 0 ELSE 1

Next ==
    \/ Apply
    \/ Kill
    \/ Save
    \/ ExecFinish
    \/ ExecTerminal
    \/ ExecPlanned
    \/ ExecInProgress

Spec == Init /\ [][Next]_vars

\* ------------------------------------------------------------ edited deploy files

\* The strategy prepare_strategy builds once the deploy files no longer
\* register the step or check at address a.
Unregister(s, a) ==
    [kind |-> [x \in DOMAIN s.kind \ {a} |-> s.kind[x]],
     order |-> SelectSeq(s.order, LAMBDA x : x # a),
     fields |-> [x \in DOMAIN s.fields \ {a} |-> s.fields[x]],
     after |-> [x \in DOMAIN s.after \ {a} |-> s.after[x]]]

\* Some step or check of s has a field or an `after` entry naming a.
Referenced(s, a) ==
    \E x \in DOMAIN s.fields :
        \/ \E n \in 1..Len(s.fields[x]) : s.fields[x][n].addr = a
        \/ \E n \in 1..Len(s.after[x]) : s.after[x][n] = a

\* `apply` starts with nothing stored, every step and check registered.
InitEdit ==
    /\ Init
    /\ strategy.fields["s2"] = <<Leaf("a1")>>
    /\ strategy.after["s2"] = <<>>
    /\ strategy.after["k1"] \in {<<>>, <<"s1">>}
    /\ available_artifacts = {"a1"}
    /\ ~push

\* Between two runs of `apply` on the same revision the deploy files are
\* edited: a step or check that nothing refers to is no longer registered,
\* while state.json still holds the plan made with it.
Edit ==
    /\ pc \in {"done", "raised", "killed"}
    /\ LoadRevision(state_file).found
    /\ strategy.order = RegistrationOrder
    /\ \E a \in StrategySteps(strategy) :
        /\ ~Referenced(strategy, a)
        /\ strategy' = Unregister(strategy, a)
    /\ UNCHANGED <<registry, call, ret, given, available_artifacts, gp, plan, idx, results, pc,
                   resume_at, state_file, yielded, hooks, applies, push, calls>>

NextEdit ==
    \/ Next
    \/ Edit

SpecEdit == InitEdit /\ [][NextEdit]_vars

\* ------------------------------------------------------------ deploy files

\* The variables of `apply`, which the library calls below leave alone.
applyVars == <<strategy, available_artifacts, gp, plan, idx, results, pc, resume_at,
               state_file, given, yielded, hooks, applies, push, calls>>

\* No strategy is loaded and `apply` has not been started.
NoStrategy == [kind |-> EmptyDict, order |-> <<>>, fields |-> EmptyDict, after |-> EmptyDict]

NotApplying ==
    /\ strategy = NoStrategy
    /\ available_artifacts = {}
    /\ gp = GeneratePlanInit(NoStrategy, <<>>)
    /\ plan = <<>>
    /\ idx = 0
    /\ results = <<>>
    /\ pc = "start"
    /\ resume_at = "none"
    /\ state_file = NoStateFile
    /\ given = <<>>
    /\ yielded = <<>>
    /\ hooks = <<>>
    /\ applies = 0
    /\ push = FALSE
    /\ calls = <<>>

InitRegister ==
    /\ NotApplying
    /\ registry = EmptyStrategy
    /\ call = NoCall
    /\ ret = NoCall

RegisterArtifact ==
    /\ \E path \in RegPaths, artifact \in SpecObjects("artifact") :
           registry' = register_artifact(registry, path, artifact)
    /\ UNCHANGED <<applyVars, call, ret>>

RegisterResource ==
    /\ \E path \in RegPaths, resource \in SpecObjects("resource") :
           registry' = register_resource(registry, path, resource)
    /\ UNCHANGED <<applyVars, call, ret>>

RegisterStep ==
    /\ \E path \in RegPaths, step \in SpecObjects("step") :
           registry' = register_step(registry, path, step)
    /\ UNCHANGED <<applyVars, call, ret>>

RegisterCheck ==
    /\ \E path \in RegPaths, check \in SpecObjects("check") :
           registry' = register_check(registry, path, check)
    /\ UNCHANGED <<applyVars, call, ret>>

NextRegister ==
    \/ RegisterArtifact
    \/ RegisterResource
    \/ RegisterStep
    \/ RegisterCheck

SpecRegister == InitRegister /\ [][NextRegister]_vars

\* ------------------------------------------------------------ address calls

\* The base the caller passes to from_string.
CallerBases == {<<>>, <<"a", "/", "a">>}

\* The Address values built directly: any base, a valid name, with and
\* without attr.
BuiltAddresses ==
    {Address(b, n, at) : b \in Strings(MaxBaseLen),
                         n \in {x \in Strings(MaxNameLen) : is_valid_name(x)},
                         at \in {NoAttr, Attr(<<"a">>)}}

\* The keys of a results map and the addresses it is read with.
KeyAddresses ==
    {Address(b, n, at) : b \in {<<>>, <<"a">>}, n \in {<<"a">>, <<"a", "1">>},
                         at \in {NoAttr, Attr(<<"a">>), Attr(<<"a", "1">>)}}

InitAddress ==
    /\ NotApplying
    /\ registry = EmptyStrategy
    /\ ret = NoCall
    /\ \/ \E base \in CallerBases, addr \in Strings(MaxStrLen) :
              call = [fn |-> "from_string", base |-> base, addr |-> addr]
       \/ \E a \in BuiltAddresses : call = [fn |-> "str", a |-> a]
       \/ \E stored \in KeyAddresses, key \in KeyAddresses :
              call = [fn |-> "getitem", stored |-> stored, key |-> key]

\* Address.from_string(base, addr)
FromString ==
    /\ call.fn = "from_string"
    /\ ret.kind = "none"
    /\ ret' = from_string(call.base, call.addr)
    /\ UNCHANGED <<applyVars, registry, call>>

\* Address.from_string(a.base, str(a))
StrFromString ==
    /\ call.fn = "str"
    /\ ret.kind = "none"
    /\ ret' = from_string(call.a.base, AddressStr(call.a))
    /\ UNCHANGED <<applyVars, registry, call>>

\* mapping[key] on a results map holding one entry, with the comparison and
\* the hashes the lookup rests on.
GetItem ==
    /\ call.fn = "getitem"
    /\ ret.kind = "none"
    /\ ret' = [kind |-> "looked up",
               eq |-> AddressEq(call.stored, call.key),
               hashes |-> <<AddressHash(call.stored), AddressHash(call.key)>>,
               got |-> DictGet(<<[key |-> call.stored, value |-> Val("result", "stored")]>>,
                               call.key)]
    /\ UNCHANGED <<applyVars, registry, call>>

NextAddress ==
    \/ FromString
    \/ StrFromString
    \/ GetItem

SpecAddress == InitAddress /\ [][NextAddress]_vars

\* ------------------------------------------------------------ resolver calls

\* The longest list, tuple, dict, attrs instance or set inside a value.
MaxItems == 2

\* The leaves of the values resolved: addresses in the mapping, with and
\* without attr, addresses missing from it, and a value that is no address.
ResolveLeaves ==
    {Leaf("a1"), LeafAttr("s1", "out"), Leaf("zz"), Leaf("yy"), Val("literal", "x")}

\* The results map the executor resolves against.
ResolveMapping ==
    [a \in {"a1", "s1"} |-> IF a = "a1" THEN Val("artifact", a) ELSE Val("result", a)]

FieldNames == <<"first", "second", "third", "fourth">>

\* The entries of a dict or attrs instance holding the given values.
Keyed(items) == [n \in 1..Len(items) |-> [key |-> FieldNames[n], value |-> items[n]]]

\* The values a field of a spec may hold: a leaf or one container of leaves.
FieldValues ==
    ResolveLeaves
    \cup UNION {{[list |-> items], [tuple |-> items], [dict |-> Keyed(items)],
                 [attrs |-> Keyed(items)]} :
                items \in UNION {[1..k -> ResolveLeaves] : k \in 0..MaxItems}}
    \cup {[set |-> S] : S \in {T \in SUBSET ResolveLeaves : Cardinality(T) <= MaxItems}}

InitResolve ==
    /\ NotApplying
    /\ registry = EmptyStrategy
    /\ ret = NoCall
    /\ \/ \E value \in FieldValues :
              call = [fn |-> "resolve_addresses", value |-> value, mapping |-> ResolveMapping]
       \/ \E first \in FieldValues, second \in FieldValues :
              call = [fn |-> "resolve_addresses",
                      value |-> [dict |-> Keyed(<<first, second>>)],
                      mapping |-> ResolveMapping]

\* resolve_addresses(value, mapping)
Resolve ==
    /\ call.fn = "resolve_addresses"
    /\ ret.kind = "none"
    /\ \E outcome \in resolve_addresses(call.value, call.mapping) :
           ret' = [kind |-> "resolved", outcome |-> outcome]
    /\ UNCHANGED <<applyVars, registry, call>>

NextResolve == Resolve

SpecResolve == InitResolve /\ [][NextResolve]_vars

\* ------------------------------------------------------------ claims

Last(s) == s[Len(s)]

\* The transition invoked one hook: its record.
HookInvoked == Len(hooks') = Len(hooks) + 1

\* The transition is one `yield` of execute_plan.
YieldStep == pc = "running" /\ pc' = "yielded"

\* The indices of the actions the transition appended to the plan.
Appended(p, q) == (Len(p) + 1)..Len(q)

\* C1: when the check hook of the CHECK action at idx raises FailedCheck, the
\* one plan yielded for that transition has the action DONE with the result
\* FailedCheck carries, every later PLANNED action CANCELLED, and one PLANNED
\* ROLLBACK appended for each earlier DONE RUN.
C1_FailedCheckCascadeIsOneYield ==
    [][(HookInvoked /\ Last(hooks').hook = "check" /\ Last(hooks').out.kind = "FailedCheck")
       => LET i == idx + 1
              runs == {j \in 1..(i - 1) : plan[j].type = "RUN" /\ plan[j].state = "DONE"}
          IN /\ yielded' = Append(yielded, plan')
             /\ plan'[i].state = "DONE"
             /\ plan'[i].result = Last(hooks').out.value
             /\ \A j \in (i + 1)..Len(plan) :
                    plan[j].state = "PLANNED" => plan'[j].state = "CANCELLED"
             /\ Len(plan') = Len(plan) + Cardinality(runs)
             /\ \A t \in Appended(plan, plan') :
                    plan'[t].type = "ROLLBACK" /\ plan'[t].state = "PLANNED"
             /\ \A j \in runs :
                    Cardinality({t \in Appended(plan, plan') : plan'[t].address = plan[j].address}) = 1
      ]_vars

C1_Witness ==
    /\ \E n \in 1..Len(hooks) : hooks[n].hook = "check" /\ hooks[n].out.kind = "FailedCheck"
    /\ \E j \in 1..Len(plan) : plan[j].state = "CANCELLED"
    /\ \E t \in 1..Len(plan) : plan[t].type = "ROLLBACK" /\ plan[t].state = "PLANNED"
    /\ pc = "yielded"

\* The ROLLBACKs a cascade at index i (1-based) owes: one for each DONE RUN at
\* an index <= i, the latest completed first.
RECURSIVE OwedRollbacks(_, _)
OwedRollbacks(p, i) ==
    IF i = 0 THEN <<>>
    ELSE IF p[i].type = "RUN" /\ p[i].state = "DONE"
         THEN <<p[i].address>> \o OwedRollbacks(p, i - 1)
         ELSE OwedRollbacks(p, i - 1)

\* C2: right after a rollback cascade triggered at idx the tail of the plan
\* holds exactly one ROLLBACK for each DONE RUN at an index <= idx, in the
\* reverse of their completion order, and none for anything else.
C2_TailIsReverseOfDoneRuns ==
    [][(YieldStep /\ Len(plan') > Len(plan))
       => /\ \A t \in Appended(plan, plan') : plan'[t].type = "ROLLBACK"
          /\ [n \in 1..(Len(plan') - Len(plan)) |-> plan'[Len(plan) + n].address]
                = OwedRollbacks(plan', idx + 1)
      ]_vars

\* C3: in every plan each ROLLBACK action is preceded by a DONE RUN action of
\* the same address; none is created for a PLANNED, CANCELLED or FAILED RUN.
C3_RollbackOnlyForDoneRun ==
    \A t \in 1..Len(plan) :
        plan[t].type = "ROLLBACK"
        => \E j \in 1..(t - 1) :
               /\ plan[j].type = "RUN"
               /\ plan[j].address = plan[t].address
               /\ plan[j].state = "DONE"

\* The step and check addresses a node names in its fields and `after` list.
NamedSteps(s, a) ==
    {d \in StrategySteps(s) :
        \/ \E n \in 1..Len(s.fields[a]) : s.fields[a][n].addr = d
        \/ \E n \in 1..Len(s.after[a]) : s.after[a][n] = d}

\* C4: a plan generate_plan returns is a topological order: every step or
\* check an action names in its fields or `after` list is strictly earlier.
C4_PlanIsTopologicalOrder ==
    gp.status = "returned"
    => \A j \in 1..Len(gp.actions) :
           \A d \in NamedSteps(strategy, gp.actions[j].address) :
               \E i \in 1..(j - 1) : gp.actions[i].address = d

C4_Witness ==
    /\ gp.status = "returned"
    /\ Len(gp.actions) = 3
    /\ NamedSteps(strategy, gp.actions[3].address)
           = {gp.actions[1].address, gp.actions[2].address}

AllowedTransitions ==
    { <<"PLANNED", "IN_PROGRESS">>, <<"IN_PROGRESS", "DONE">>,
      <<"IN_PROGRESS", "FAILED">>, <<"PLANNED", "CANCELLED">> }

\* C5: between consecutive yielded plans every existing action keeps its
\* position, type and address and is unchanged or makes one allowed state
\* transition; the only new actions are PLANNED ROLLBACKs at the tail.
C5_OnlyValidTransitions ==
    [][YieldStep
       => LET prev == IF yielded = <<>> THEN plan ELSE Last(yielded)
              new == Last(yielded')
          IN /\ Len(yielded') = Len(yielded) + 1
             /\ Len(new) >= Len(prev)
             /\ \A j \in 1..Len(prev) :
                    /\ new[j].type = prev[j].type
                    /\ new[j].address = prev[j].address
                    /\ \/ new[j] = prev[j]
                       \/ <<prev[j].state, new[j].state>> \in AllowedTransitions
             /\ \A t \in Appended(prev, new) :
                    new[t].type = "ROLLBACK" /\ new[t].state = "PLANNED"
      ]_vars

C5_Witness ==
    /\ pc = "yielded"
    /\ Len(yielded) >= 6
    /\ \E j \in 1..Len(plan) : plan[j].state = "CANCELLED"
    /\ \E t \in 1..Len(plan) : plan[t].type = "ROLLBACK" /\ plan[t].state = "DONE"

\* C6: when a run or check hook fails with an error other than FailedCheck the
\* action is marked FAILED with an error payload and the plan is yielded, the
\* error does not escape with the action still IN_PROGRESS.
C6_HookErrorMarksFailed ==
    (hooks # <<>> /\ Last(hooks).hook \in {"run", "check"} /\ Last(hooks).out.kind = "error")
    => /\ pc # "raised"
       /\ plan[Last(hooks).idx + 1].state = "FAILED"
       /\ plan[Last(hooks).idx + 1].error # None

\* C7: a failure raised while executing a ROLLBACK action starts no cascade:
\* no action is cancelled and no ROLLBACK is appended because of it.
C7_RollbackFailureStartsNoCascade ==
    [][(HookInvoked /\ Last(hooks').hook = "rollback" /\ Last(hooks').out.kind # "return")
       => /\ Len(plan') = Len(plan)
          /\ \A j \in 1..Len(plan) : plan'[j].state = "CANCELLED" => plan[j].state = "CANCELLED"
      ]_vars

\* C8: every ROLLBACK action carries the snapshot stored on the DONE RUN of
\* its address, and the rollback hook is given the snapshot the snapshot hook
\* captured before the run.
C8_RollbackCarriesSnapshot ==
    /\ \A t \in 1..Len(plan) :
           plan[t].type = "ROLLBACK"
           => \E j \in 1..(t - 1) :
                  /\ plan[j].type = "RUN"
                  /\ plan[j].address = plan[t].address
                  /\ plan[t].snapshot = plan[j].snapshot
    /\ \A n \in 1..Len(hooks) :
           hooks[n].hook = "rollback"
           => \E j \in 1..Len(plan) :
                  /\ plan[j].type = "RUN"
                  /\ plan[j].address = hooks[n].address
                  /\ hooks[n].arg = Structure(plan[j].snapshot, SnapshotType)

C10_TerminalActionsAreSkipped ==
    [][/\ pc = "running"
          => \A j \in 1..Len(plan) :
                 plan[j].state \in {"DONE", "FAILED", "CANCELLED"} => plan'[j] = plan[j]
       /\ HookInvoked
          => LET h == Last(hooks') IN
             /\ h.idx = idx
             /\ h.address = plan[idx + 1].address
             /\ plan[idx + 1].state \in {"PLANNED", "IN_PROGRESS"}
             /\ \A j \in 1..idx : plan[j].state \in {"DONE", "FAILED", "CANCELLED"}
      ]_vars

\* a resumed execution whose first hook belongs to an action behind a prefix
\* of actions persisted as terminal
C10_Witness ==
    /\ applies = 2
    /\ state_file.exists
    /\ Len(hooks) = 1
    /\ hooks[1].idx >= 1
    /\ plan[1].state = "DONE"

\* The first `apply` of a revision, in which no hook has failed so far: it
\* executes the plan generate_plan returned, all of whose actions are PLANNED.
NoHookFailed ==
    /\ applies = 1
    /\ \A n \in 1..Len(hooks) : hooks[n].out.kind = "return"

\* C11: executing a plan of n PLANNED actions in which no hook fails yields
\* exactly 2n plans: the (2k-1)-th has action k IN_PROGRESS, the 2k-th has it
\* DONE with the value its run or check hook returned, the actions before k
\* are DONE and those after it PLANNED; the last plan has every action DONE.
C11_TwoPlansPerAction ==
    NoHookFailed
    => LET n == Len(gp.actions) IN
       /\ Len(yielded) <= 2 * n
       /\ \A k \in 1..Len(yielded) :
              LET a == (k + 1) \div 2
                  p == yielded[k]
              IN /\ Len(p) = n
                 /\ \A j \in 1..n : /\ p[j].type = gp.actions[j].type
                                     /\ p[j].address = gp.actions[j].address
                 /\ \A j \in 1..(a - 1) : p[j].state = "DONE"
                 /\ \A j \in (a + 1)..n : p[j] = gp.actions[j]
                 /\ p[a].state = IF k % 2 = 1 THEN "IN_PROGRESS" ELSE "DONE"
                 /\ k % 2 = 0
                        => \E h \in 1..Len(hooks) :
                               /\ hooks[h].idx = a - 1
                               /\ hooks[h].hook = HookName(p[a].type)
                               /\ p[a].result = hooks[h].out.value
       /\ pc = "done" => /\ Len(yielded) = 2 * n
                         /\ n > 0 => \A j \in 1..n : Last(yielded)[j].state = "DONE"

C11_Witness ==
    /\ NoHookFailed
    /\ pc = "done"
    /\ Len(gp.actions) = 3
    /\ Len(yielded) = 6

\* C12: while execute_plan holds a plan with no PLANNED or IN_PROGRESS action
\* (the empty plan included) it yields nothing, invokes no hook and leaves the
\* plan as it is; it can only move its cursor, return or be interrupted.
C12_NothingToDoYieldsNothing ==
    [][(pc = "running" /\ \A j \in 1..Len(plan) : plan[j].state \notin {"PLANNED", "IN_PROGRESS"})
       => /\ yielded' = yielded
          /\ hooks' = hooks
          /\ plan' = plan
          /\ state_file' = state_file
          /\ pc' \in {"running", "done", "killed"}
      ]_vars

\* an execution of a loaded plan whose actions are all terminal has returned
C12_Witness ==
    /\ applies = 2
    /\ pc = "done"
    /\ Len(plan) >= 2
    /\ idx = Len(plan)
    /\ yielded = <<>>
    /\ hooks = <<>>

\* C13: once the run hook of the RUN action at address a has returned, every
\* hook of a later action of the same execution whose spec has a field
\* naming a is given, for that field, the value the run hook returned,
\* projected by the field's attr path.
C13_LaterActionsGetRunResult ==
    \A m \in 1..Len(hooks) : \A n \in 1..(m - 1) :
        (hooks[n].hook = "run" /\ hooks[n].out.kind = "return"
            /\ hooks[m].hook \in {"snapshot", "run", "check"})
        => LET deps == Dependencies(strategy, hooks[m].address) IN
           \A f \in 1..Len(deps) :
               deps[f].addr = hooks[n].address
               => hooks[m].deps[f] =
                      IF deps[f].attr = "None" THEN hooks[n].out.value
                      ELSE AttrGetter(deps[f].attr, hooks[n].out.value)

C13_Witness ==
    \E m \in 1..Len(hooks) : \E n \in 1..(m - 1) :
        /\ hooks[n].hook = "run" /\ hooks[n].out.kind = "return"
        /\ hooks[m].hook = "run"
        /\ Dependencies(strategy, hooks[m].address) = <<LeafAttr(hooks[n].address, "out")>>
        /\ hooks[m].deps = <<AttrGetter("out", hooks[n].out.value)>>

\* The addresses that depend on an artifact that was not built: the least set
\* holding the unavailable artifacts and every step or check with a field
\* naming a member of the set.
RECURSIVE DependsOnUnavailable(_, _)
DependsOnUnavailable(s, S) ==
    LET T == S \cup {a \in StrategySteps(s) :
                        \E n \in 1..Len(s.fields[a]) : s.fields[a][n].addr \in S}
    IN IF T = S THEN S ELSE DependsOnUnavailable(s, T)

PlannedAddresses == {gp.actions[j].address : j \in 1..Len(gp.actions)}

\* C14: in a plan generate_plan returns, a step or check has no action if and
\* only if it depends, through its fields and transitively through other
\* steps and checks, on a registered artifact that is not available.
C14_SkippedIffDependsOnUnavailable ==
    gp.status = "returned"
    => \A a \in StrategySteps(strategy) :
           a \notin PlannedAddresses
           <=> a \in DependsOnUnavailable(strategy,
                                          StrategyArtifacts(strategy) \ available_artifacts)

\* a returned plan that leaves out a step two dependencies away from an
\* artifact that was not built, next to an action that was planned
C14_Witness ==
    /\ gp.status = "returned"
    /\ Len(gp.actions) = 1
    /\ \E a \in StrategySteps(strategy) :
           /\ a \notin PlannedAddresses
           /\ \A n \in 1..Len(strategy.fields[a]) :
                  strategy.fields[a][n].addr \in StrategySteps(strategy)

C16_UnknownAddressNeverPlanned ==
    (\E a \in StrategySteps(strategy) : \E n \in 1..Len(strategy.fields[a]) :
        strategy.fields[a][n].addr \notin StrategySpecs(strategy))
    => gp.status # "returned"

\* The leaves that do not resolve when generate_plan gives up, in the sorted
\* order of the nodes naming them.
RemainingUnresolvable ==
    LET pending == Sorted(gp.steps)
        missing == SelectSeq(pending,
                       LAMBDA a : Unresolvable(Dependencies(strategy, a), gp.results) # "")
    IN [n \in 1..Len(missing) |-> Unresolvable(Dependencies(strategy, missing[n]), gp.results)]

\* C17: when generate_plan raises UnknownAddresses, the list it reports holds
\* the leaf addresses that remained unresolvable, in the sorted order of the
\* nodes naming them; it is not empty and holds no registered address.
C17_UnknownAddressesAreUnknown ==
    gp.status = "raised"
    => /\ gp.unresolvable_addresses = RemainingUnresolvable
       /\ gp.unresolvable_addresses # <<>>
       /\ \A n \in 1..Len(gp.unresolvable_addresses) :
              gp.unresolvable_addresses[n] \notin StrategySpecs(strategy)

\* The orders in which the members of S can be listed.
Orderings(S) ==
    {o \in [1..Cardinality(S) -> S] : \A i, j \in 1..Cardinality(S) : o[i] = o[j] => i = j}

\* C18: generate_plan gives the same outcome and the same ordered plan for
\* every registration order of the steps and checks and every order of the
\* available_artifacts list; an action placed right after one of a greater
\* address is there because it names a step of a greater address.
C18_PlanIsDeterministic ==
    gp.status \in {"returned", "raised", "error"}
    => /\ \A o \in Orderings(Elems(StepItems(strategy))) :
          \A l \in Orderings(available_artifacts) :
              LET g == generate_plan([strategy EXCEPT !.order = o], l)
              IN g.status = gp.status /\ g.actions = gp.actions
       /\ \A j \in 1..(Len(gp.actions) - 1) :
              Rank(gp.actions[j + 1].address) < Rank(gp.actions[j].address)
              => \E d \in NamedSteps(strategy, gp.actions[j + 1].address) :
                     Rank(d) > Rank(gp.actions[j + 1].address)

\* two steps that depend on the same artifact only, registered in descending
\* order of their addresses, planned in ascending order
C18_Witness ==
    /\ gp.status = "returned"
    /\ strategy.fields["s1"] = <<Leaf("a1")>> /\ strategy.after["s1"] = <<>>
    /\ strategy.fields["s2"] = <<Leaf("a1")>> /\ strategy.after["s2"] = <<>>
    /\ \E i, j \in 1..Len(gp.actions) :
           i < j /\ gp.actions[i].address = "s1" /\ gp.actions[j].address = "s2"
    /\ \E i, j \in 1..Len(strategy.order) :
           i < j /\ strategy.order[i] = "s2" /\ strategy.order[j] = "s1"

\* The transition is one save_revision call of apply's loop.
SaveStep == pc = "yielded" /\ pc' = "running"

CountCalls(op) == Cardinality({n \in 1..Len(calls') : calls'[n].op = op})

\* C20: a save_revision call writes state.json, then makes exactly one
\* commit with the message 'update state for revision <revision>', then
\* pushes once if state.push is set and never otherwise; nothing else writes,
\* commits or pushes.
C20_WriteCommitPush ==
    [][IF SaveStep
       THEN /\ CountCalls("write") = 1
            /\ CountCalls("commit") = 1
            /\ CountCalls("push") = (IF push THEN 1 ELSE 0)
            /\ Len(calls') = 2 + CountCalls("push")
            /\ calls'[1].op = "write"
            /\ calls'[2] = Call("commit", "update state for revision abc")
            /\ push => calls'[3].op = "push"
       ELSE calls' = calls
      ]_vars

C20_Witness ==
    /\ push
    /\ Len(calls) = 3
    /\ calls[3].op = "push"
    /\ Len(yielded) >= 2
    /\ pc = "running"

\* C21: `apply` ends with a non-zero exit status whenever a hook of the
\* execution failed (a failed check or an error, the rollback cascade completed
\* or not), and with exit status 0 only when every action of the plan is DONE
\* and no hook failed.
C21_ExitStatusTellsFailure ==
    pc \in {"done", "raised"}
    => LET failed == \/ \E n \in 1..Len(hooks) : hooks[n].out.kind # "return"
                     \/ \E j \in 1..Len(plan) : plan[j].state = "FAILED"
       IN /\ failed => ExitStatus(pc) # 0
          /\ ExitStatus(pc) = 0 => (~failed /\ \A j \in 1..Len(plan) : plan[j].state = "DONE")

\* The spec objects bound to an address in the dicts of the strategy.
BoundSpecs(reg, address) ==
    {d[address].item : d \in {x \in {reg.steps, reg.artifacts, reg.resources} : address \in DOMAIN x}}

\* C22: after any sequence of register_* calls each address identifies at most
\* one spec: a second registration at an address in use, of the same kind or
\* of another, never leaves two different specs bound to it.
C22_AddressIdentifiesOneSpec ==
    \A path \in RegPaths, n \in RegNames :
        Cardinality(BoundSpecs(registry, Address(path, n, NoAttr))) <= 1

\* C23: for every valid Address a, from_string(a.base, str(a)) returns an
\* address with the base and the name of a, whatever the base is (empty, with
\* slashes) and whatever attr a carries.
C23_StrRoundTrips ==
    (call.fn = "str" /\ ret.kind # "none")
    => /\ ret.kind = "return"
       /\ ret.value.base = call.a.base
       /\ ret.value.name = call.a.name

C23_Witness ==
    /\ call.fn = "str"
    /\ ret.kind = "return"
    /\ call.a.base = <<"a", "/">>
    /\ call.a.name = <<"a", "-", "1">>
    /\ call.a.attr.some

\* C24: two addresses are equal exactly when their base and name are equal,
\* whatever their attr; equal addresses have equal hashes; so a lookup with an
\* address finds the entry stored under the same base and name, with or
\* without attr on either.
C24_EqualityIgnoresAttr ==
    (call.fn = "getitem" /\ ret.kind # "none")
    => LET same == call.stored.base = call.key.base /\ call.stored.name = call.key.name
       IN /\ ret.eq <=> same
          /\ ret.eq => ret.hashes[1] = ret.hashes[2]
          /\ same => (ret.got.kind = "return" /\ ret.got.value = Val("result", "stored"))
          /\ ~same => ret.got.kind = "KeyError"

C24_Witness ==
    /\ call.fn = "getitem"
    /\ call.key.attr.some
    /\ ~call.stored.attr.some
    /\ ret.kind = "looked up"
    /\ ret.got.kind = "return"

\* What from_string is to return for a string whose name is s[from..to] and
\* whose attr part, if any, follows the '#' at to + 1.
ParsedAs(base, s, from, to) ==
    [kind |-> "return",
     value |-> Address(base, SubSeq(s, from, to),
                       IF to + 1 < Len(s) THEN Attr(SubSeq(s, to + 2, Len(s))) ELSE NoAttr)]

\* s[from..to] is the name of s: what follows it is nothing or a '#' and an
\* attr, which holds no colon.
NameEndsAt(s, from, to) ==
    /\ to \in (from - 1)..Len(s)
    /\ \A n \in from..to : s[n] # "#"
    /\ to = Len(s) \/ s[to + 1] = "#"
    /\ \A n \in (to + 1)..Len(s) : s[n] # ":"

\* C30: from_string(base, s) returns Address(base, name, attr) for
\* ':name[#attr]' and Address(b, name, attr) for '//b:name[#attr]' (b ending
\* at the last colon), attr being
\* None when '#' is missing or nothing follows it; it raises for every s that
\* starts with neither ':' nor '//', that ends with ':', or whose name is not
\* a valid name.
C30_FromStringParsesOrRaises ==
    (call.fn = "from_string" /\ ret.kind # "none")
    => LET s == call.addr
           relative == StartsWith(s, <<":">>)
           absolute == StartsWith(s, <<"/", "/">>)
       IN /\ relative
             => \A to \in 1..Len(s) :
                    NameEndsAt(s, 2, to)
                    => IF is_valid_name(SubSeq(s, 2, to))
                       THEN ret = ParsedAs(call.base, s, 2, to)
                       ELSE ret.kind = "ValueError"
          /\ absolute
             => \A colon \in 3..Len(s), to \in 3..Len(s) :
                    (/\ s[colon] = ":" /\ \A n \in (colon + 1)..Len(s) : s[n] # ":"
                     /\ NameEndsAt(s, colon + 1, to))
                    => IF is_valid_name(SubSeq(s, colon + 1, to))
                       THEN ret = ParsedAs(SubSeq(s, 3, colon - 1), s, colon + 1, to)
                       ELSE ret.kind = "ValueError"
          /\ (~relative /\ ~absolute) => ret.kind = "ValueError"
          /\ (s # <<>> /\ s[Len(s)] = ":") => ret.kind = "ValueError"

\* The snapshot hooks this execution invoked for the action at index i.
SnapshotHooks(i) == {n \in 1..Len(hooks) : hooks[n].hook = "snapshot" /\ hooks[n].idx = i}

\* C25: the snapshot hook is invoked only for a PLANNED RUN action, at most
\* once, and when it returns the plan yielded has the action IN_PROGRESS with
\* the serialized snapshot; the run hook is invoked only after that plan was
\* yielded and saved, exactly one snapshot hook having been invoked for the
\* action when the execution started with it PLANNED, and receives the stored
\* snapshot; no snapshot hook is invoked for a CHECK or ROLLBACK action.
C25_SnapshotOnceBeforeRun ==
    [][HookInvoked
       => LET h == Last(hooks')
              action == plan[idx + 1]
          IN /\ h.hook = "snapshot"
                => /\ action.type = "RUN" /\ action.state = "PLANNED"
                   /\ SnapshotHooks(idx) = {}
                   /\ h.out.kind = "return"
                      => /\ pc' = "yielded"
                         /\ Last(yielded') = [plan EXCEPT ![idx + 1] =
                                [@ EXCEPT !.state = "IN_PROGRESS",
                                          !.snapshot = Val("unstructured", h.out.value.of)]]
             /\ h.hook = "run"
                => /\ action.type = "RUN" /\ action.state = "IN_PROGRESS"
                   /\ action.snapshot = Val("unstructured", h.arg.of)
                   /\ h.arg.tag = "snapshot"
                   /\ LoadRevision(state_file).found
                   /\ LoadRevision(state_file).plan[idx + 1] = action
                   /\ Cardinality(SnapshotHooks(idx)) <= 1
                   /\ applies = 1 => Cardinality(SnapshotHooks(idx)) = 1
                   /\ \A n \in SnapshotHooks(idx) : hooks[n].out = Return(h.arg)
             /\ h.hook \in {"check", "rollback"}
                => /\ action.type # "RUN"
                   /\ SnapshotHooks(idx) = {}
      ]_vars

C25_Witness ==
    /\ applies = 1
    /\ \E n, m \in 1..Len(hooks) :
           /\ n < m
           /\ hooks[n].hook = "snapshot" /\ hooks[m].hook = "run"
           /\ hooks[n].idx = 1 /\ hooks[m].idx = 1
           /\ hooks[m].arg = Val("snapshot", "v2")
    /\ \E n \in 1..Len(hooks) : hooks[n].hook = "rollback"

\* C26: every yielded plan has at most one action IN_PROGRESS and every
\* action before that one is in a terminal state; no hook of an action is
\* invoked while an action at a smaller index is PLANNED or IN_PROGRESS.
C26_OneActionAtATime ==
    /\ [](\A k \in 1..Len(yielded) :
              LET p == yielded[k] IN
              /\ Cardinality({j \in 1..Len(p) : p[j].state = "IN_PROGRESS"}) <= 1
              /\ \A j \in 1..Len(p) :
                     p[j].state = "IN_PROGRESS"
                     => \A i \in 1..(j - 1) : p[i].state \in Terminal)
    /\ [][HookInvoked
           => \A i \in 1..Last(hooks').idx : plan[i].state \notin {"PLANNED", "IN_PROGRESS"}
          ]_vars

C26_Witness ==
    /\ Len(hooks) >= 4
    /\ yielded # <<>>
    /\ \E j \in 3..Len(plan) :
           /\ Last(yielded)[j].state = "IN_PROGRESS"
           /\ Last(yielded)[j].type = "ROLLBACK"
           /\ \E i \in 1..(j - 1) : Last(yielded)[i].state = "CANCELLED"

C28_AttrPathsResolveWhilePlanning == gp.status # "error"

\* The Address leaves of a value that are absent from the mapping.
RECURSIVE MissingLeaves(_, _)
MissingLeaves(value, mapping) ==
    IF DOMAIN value = {"addr", "attr"}
    THEN IF value.addr \in DOMAIN mapping THEN {} ELSE {value.addr}
    ELSE IF DOMAIN value = {"tag", "of"} THEN {}
    ELSE LET k == CHOOSE x \in DOMAIN value : TRUE
             nested == IF k = "set" THEN value[k]
                       ELSE IF k \in {"dict", "attrs"}
                            THEN {value[k][n].value : n \in 1..Len(value[k])}
                            ELSE {value[k][n] : n \in 1..Len(value[k])}
         IN UNION {MissingLeaves(e, mapping) : e \in nested}

\* `out` has the shape of `value`, with every Address leaf replaced by the
\* mapping's value projected along its attr and every other leaf as it was.
RECURSIVE Replaced(_, _, _)
Replaced(value, out, mapping) ==
    IF DOMAIN value = {"addr", "attr"}
    THEN out = IF value.attr = "None" THEN mapping[value.addr]
               ELSE Val(mapping[value.addr].tag, mapping[value.addr].of \o "." \o value.attr)
    ELSE IF DOMAIN value = {"tag", "of"} THEN out = value
    ELSE /\ DOMAIN out = DOMAIN value
         /\ LET k == CHOOSE x \in DOMAIN value : TRUE IN
            IF k = "set"
            THEN /\ \A e \in value[k] : \E o \in out[k] : Replaced(e, o, mapping)
                 /\ \A o \in out[k] : \E e \in value[k] : Replaced(e, o, mapping)
            ELSE /\ Len(out[k]) = Len(value[k])
                 /\ \A n \in 1..Len(value[k]) :
                        IF k \in {"dict", "attrs"}
                        THEN /\ out[k][n].key = value[k][n].key
                             /\ Replaced(value[k][n].value, out[k][n].value, mapping)
                        ELSE Replaced(value[k][n], out[k][n], mapping)

C31_ResultsBindResourceState ==
    (pc = "running" /\ yielded = <<>> /\ idx = 0)
    => /\ \A a \in StrategyArtifacts(strategy) :
            /\ a \in DOMAIN results <=> a \in available_artifacts
            /\ a \in DOMAIN results => results[a] = ArtifactResolve(a)
       /\ \A r \in StrategyResources(strategy) :
            /\ r \in DOMAIN results
            /\ results[r] = ResourceState(r)

\* The executor is about to take up an action whose address has no registered
\* spec, and the process is not interrupted.
TakesUpMissing ==
    /\ pc = "running"
    /\ idx < Len(plan)
    /\ plan[idx + 1].state \notin Terminal
    /\ plan[idx + 1].address \notin StrategySpecs(strategy)
    /\ pc' # "killed"

\* C32 as stated: when the executor takes up an action of any type whose
\* address has no registered spec, execute_plan raises, yields no plan in
\* which the action has left its state, and invokes no hook.
C32_MissingSpecRaisesAtOnce ==
    [][TakesUpMissing => (pc' = "raised" /\ yielded' = yielded /\ hooks' = hooks)]_vars

\* C32 amended: when the executor takes up an action whose address has no
\* registered spec, no hook is invoked; a PLANNED RUN and every IN_PROGRESS
\* action make execute_plan raise with nothing yielded, while a PLANNED CHECK
\* or ROLLBACK is first yielded as IN_PROGRESS, so execute_plan raises only
\* when it takes the action up again.
C32_MissingSpecRaisesBeforeHook ==
    [][TakesUpMissing =>
        /\ hooks' = hooks
        /\ IF plan[idx + 1].state = "PLANNED" /\ plan[idx + 1].type # "RUN"
           THEN /\ pc' = "yielded"
                /\ plan' = [plan EXCEPT ![idx + 1].state = "IN_PROGRESS"]
                /\ yielded' = Append(yielded, plan')
           ELSE /\ pc' = "raised"
                /\ yielded' = yielded
                /\ plan' = plan]_vars

C32_Witness ==
    /\ pc = "raised"
    /\ idx < Len(plan)
    /\ plan[idx + 1].address \notin StrategySpecs(strategy)
    /\ plan[idx + 1].type = "ROLLBACK"
    /\ plan[idx + 1].state = "IN_PROGRESS"
    /\ Len(yielded) = 1
    /\ hooks = <<>>

\* The number of actions of the given type in the plan p.
CountType(p, type) == Cardinality({j \in 1..Len(p) : p[j].type = type})

\* C33: execute_plan comes to an end whatever the hooks return or raise as
\* FailedCheck, because the plan it works through never grows beyond the
\* actions of the plan it was given plus one ROLLBACK for each RUN of it.
C33_PlanGrowthBounded ==
    pc # "start" => Len(plan) <= Len(given) + CountType(given, "RUN")

\* C34: generate_plan terminates, cyclic references included: a pass of its
\* loop ends generate_plan (a plan returned or an exception raised), or takes
\* at least one node out of the pending ones and puts none in, or leaves them
\* as they are and then the next pass raises UnknownAddresses.
C34_EachPassShrinksOrRaises ==
    [][gp.status = "loop" =>
        \/ gp'.status \in {"returned", "raised", "error"}
        \/ /\ Elems(gp'.steps) \subseteq Elems(gp.steps)
           /\ Len(gp'.steps) < Len(gp.steps)
        \/ /\ gp'.steps = gp.steps
           /\ WhileIteration(strategy, gp').status = "raised"]_vars

\* two steps whose fields name each other: UnknownAddresses is raised with
\* both of them still pending
C34_Witness ==
    /\ gp.status = "raised"
    /\ strategy.fields["s1"] = <<Leaf("s2")>>
    /\ strategy.fields["s2"] = <<Leaf("s1")>>
    /\ {"s1", "s2"} \subseteq Elems(gp.steps)

\* The steps and checks reached from a through at most n references (fields
\* or `after`).
RECURSIVE NamedWithin(_, _, _)
NamedWithin(s, a, n) ==
    IF n = 0 THEN {}
    ELSE NamedSteps(s, a) \cup UNION {NamedWithin(s, d, n - 1) : d \in NamedSteps(s, a)}

\* Every field and `after` reference of s names a registered address.
AllRegistered(s) ==
    \A a \in StrategySteps(s) :
        /\ \A n \in 1..Len(s.fields[a]) : s.fields[a][n].addr \in StrategySpecs(s)
        /\ \A n \in 1..Len(s.after[a]) : s.after[a][n] \in StrategySpecs(s)

\* The references among the steps and checks of s form no cycle.
Acyclic(s) ==
    \A a \in StrategySteps(s) : a \notin NamedWithin(s, a, Cardinality(StrategySteps(s)))

\* C35: for a strategy whose references all name registered addresses and
\* form no cycle among steps and checks, and for every set of available
\* artifacts, generate_plan does not raise UnknownAddresses, also when an
\* `after` list names a step that is skipped for lack of an artifact.
C35_ValidStrategyAlwaysPlans ==
    (AllRegistered(strategy) /\ Acyclic(strategy)) => gp.status # "raised"

\* The action at index j (1-based) of the plan is a DONE RUN at address a that
\* no later action of the plan before index i has rolled back.
CompletedRun(j, a, i) ==
    /\ plan[j].type = "RUN"
    /\ plan[j].state = "DONE"
    /\ plan[j].address = a
    /\ \A t \in (j + 1)..i : ~(plan[t].type = "ROLLBACK" /\ plan[t].address = a
                                /\ plan[t].state = "DONE")

\* C36: whenever execute_plan, resumed on a loaded plan or not, is about to
\* take up an action, each address its spec depends on that has a DONE RUN
\* action earlier in the plan is bound in the results map to the result
\* recorded on that action: resuming never leaves a completed step
\* unresolvable.
C36_ResumeBindsDoneResults ==
    (pc = "running" /\ idx < Len(plan) /\ plan[idx + 1].state \notin Terminal)
    => LET deps == Dependencies(strategy, plan[idx + 1].address) IN
       \A n \in 1..Len(deps) : \A j \in 1..idx :
           CompletedRun(j, deps[n].addr, idx)
           => /\ deps[n].addr \in DOMAIN results
              /\ results[deps[n].addr] = plan[j].result

\* C37: when the rollback hook of a step is invoked, the values its fields
\* resolve to are those its run hook was given in the same execution: no
\* entry of the results map the step depends on was overwritten or removed
\* in between by a check result or by a ROLLBACK executed earlier.
C37_RollbackSeesRunDependencies ==
    \A m, n \in 1..Len(hooks) :
        (/\ m < n
         /\ hooks[m].hook = "run"
         /\ hooks[n].hook = "rollback"
         /\ hooks[m].address = hooks[n].address)
        => hooks[n].deps = hooks[m].deps

====
